---------------------------- MODULE Spec2Model ----------------------------
(***************************************************************************)
(* A model of bindings/rascal/models/gaptools.py (librascal): the energy   *)
(* baseline, the kernel assembly with its files, and the regularized       *)
(* least-squares fit of a GAP model.                                       *)
(*                                                                         *)
(* Numbers are exact: a number is q * sqrt(r) with q rational and r a      *)
(* squarefree positive integer, which is closed under every operation the  *)
(* code applies to the inputs enumerated here (np.sqrt is only applied to  *)
(* atom counts).  Floating-point rounding is not modelled.                 *)
(***************************************************************************)
EXTENDS Integers, Sequences, FiniteSets, TLC

VARIABLES
    bl_geom,    \* _get_energy_baseline: the structure passed (its atomic numbers)
    bl_table,   \* _get_energy_baseline: the atom_contributions dict passed
    bl_ret,     \* _get_energy_baseline: the value returned (None before the return)
    loaded,     \* whether the module gaptools has been imported
    WORKDIR,    \* the module-level WORKDIR
    cwd,        \* the process's current working directory
    files,      \* the file system: path given to np.save / dump_obj -> content
    kcall,      \* the last compute_kernels / calculate_and_sparsify call
    args,       \* fit_gap_simple: the argument objects, owned by the caller
    frame,      \* fit_gap_simple: the locals of the last run and its outcome
    pc,         \* fit_gap_simple: "idle", "called" or "done"
    first       \* the first completed fit_gap_simple call: its arguments, its
                \* outcome, and whether a later call passed the same arguments

vars == <<bl_geom, bl_table, bl_ret, loaded, WORKDIR, cwd, files, kcall,
          args, frame, pc, first>>

blVars == <<bl_geom, bl_table, bl_ret>>
kVars == <<loaded, WORKDIR, cwd, files, kcall>>
fitVars == <<args, frame, pc, first>>

-----------------------------------------------------------------------------
(* Bounds of the model. *)

MaxAtoms == 2
MaxN == 2
MaxM == 2

-----------------------------------------------------------------------------
(* Python's None and a present value. *)

None == [isNone |-> TRUE]
Some(x) == [isNone |-> FALSE, val |-> x]

-----------------------------------------------------------------------------
(* An array given by its elements: the sequence with the elements          *)
(* evaluated once (TLC would otherwise re-evaluate an element at each use).*)

Arr(f) == f \o <<>>

-----------------------------------------------------------------------------
(* Exact numbers n/d * sqrt(r): d > 0, gcd(n, d) = 1, r squarefree. *)

Abs(x) == IF x < 0 THEN -x ELSE x

RECURSIVE Gcd(_, _)
Gcd(a, b) == IF b = 0 THEN a ELSE Gcd(b, a % b)

\* The largest s with s*s dividing r.
SqPart(r) ==
    CHOOSE s \in 1..r :
        /\ r % (s * s) = 0
        /\ \A t \in (s + 1)..r : r % (t * t) # 0

Zero == [n |-> 0, d |-> 1, r |-> 1]

MkNum(n, d, r) ==
    IF n = 0 THEN Zero
    ELSE LET s == SqPart(r)
             n1 == (IF d < 0 THEN -n ELSE n) * s
             d1 == Abs(d)
             g == Gcd(Abs(n1), d1)
         IN [n |-> n1 \div g, d |-> d1 \div g, r |-> r \div (s * s)]

IntNum(k) == MkNum(k, 1, 1)
Rat(n, d) == MkNum(n, d, 1)

Neg(x) == [x EXCEPT !.n = -x.n]
\* common factors are cancelled before the products are formed
Mul(x, y) ==
    IF x.n = 0 \/ y.n = 0 THEN Zero
    ELSE LET g1 == Gcd(Abs(x.n), y.d)
             g2 == Gcd(Abs(y.n), x.d)
         IN MkNum((x.n \div g1) * (y.n \div g2),
                  (x.d \div g2) * (y.d \div g1), x.r * y.r)
\* 1 / (n/d sqrt r) = d / (n r) sqrt r; the divisors met here are never zero
Inv(x) == MkNum(x.d, x.n * x.r, x.r)
Div(x, y) == Mul(x, Inv(y))
\* the sums the code forms are of numbers with one radicand
Add(x, y) ==
    CASE x.n = 0 -> y
      [] y.n = 0 -> x
      [] x.r = y.r ->
            LET g == Gcd(x.d, y.d)
            IN MkNum(x.n * (y.d \div g) + y.n * (x.d \div g),
                     (x.d \div g) * y.d, x.r)
Sub(x, y) == Add(x, Neg(y))

\* np.sqrt of a non-negative integer
NpSqrt(k) == MkNum(1, 1, k)

RECURSIVE SumSeq(_)
SumSeq(s) == IF s = <<>> THEN Zero ELSE Add(s[1], SumSeq(Tail(s)))

-----------------------------------------------------------------------------
(* _get_energy_baseline(geom, atom_contributions): geom is the sequence of *)
(* the structure's atomic numbers, atom_contributions a dict (a function   *)
(* from a finite set of species to numbers).                               *)

\* np.sum(geom.get_atomic_numbers() == species)
CountSpecies(geom, species) ==
    Cardinality({j \in 1..Len(geom) : geom[j] = species})

\* the body of the loop, with the mutation of a plain assignment for "+="
BaselineTermAssign(e0, e0_value, geom, species) ==
    Mul(e0_value, IntNum(CountSpecies(geom, species)))

\* e0 += e0_value * np.sum(geom.get_atomic_numbers() == species)
BaselineTerm(e0, e0_value, geom, species) ==
    Add(e0, Mul(e0_value, IntNum(CountSpecies(geom, species))))

\* the loop over atom_contributions.items(), from e0 = 0.
RECURSIVE BaselineLoop(_, _, _, _)
BaselineLoop(e0, keys, geom, atom_contributions) ==
    IF keys = {} THEN e0
    ELSE LET species == CHOOSE k \in keys : \A k2 \in keys : k <= k2
         IN BaselineLoop(
                BaselineTerm(e0, atom_contributions[species], geom, species),
                keys \ {species}, geom, atom_contributions)

_get_energy_baseline(geom, atom_contributions) ==
    BaselineLoop(Zero, DOMAIN atom_contributions, geom, atom_contributions)

-----------------------------------------------------------------------------
(* The callers of _get_energy_baseline: structures of up to MaxAtoms atoms *)
(* of hydrogen, carbon and oxygen, and tables over hydrogen and oxygen.    *)

Species == {1, 6, 8}
TableSpecies == {1, 8}
TableValues == {IntNum(0), IntNum(3), Rat(-1, 2)}

Geoms == UNION {[1..k -> Species] : k \in 0..MaxAtoms}
Tables == UNION {[S -> TableValues] : S \in SUBSET TableSpecies}

BaselineInit ==
    /\ bl_geom \in Geoms
    /\ bl_table \in Tables
    /\ bl_ret = None

\* the caller passes another structure and table
BaselineCall ==
    /\ ~bl_ret.isNone
    /\ \E g \in Geoms, t \in Tables :
        /\ bl_geom' = g
        /\ bl_table' = t
    /\ bl_ret' = None

\* the run of _get_energy_baseline to its return
GetEnergyBaseline ==
    /\ bl_ret.isNone
    /\ bl_ret' = Some(_get_energy_baseline(bl_geom, bl_table))
    /\ UNCHANGED <<bl_geom, bl_table>>

-----------------------------------------------------------------------------
(* The module's load and the process's working directory.                  *)

Dirs == {"/home/a", "/home/b", "/tmp/run"}

\* import of the module: WORKDIR = os.getcwd()
Import ==
    /\ ~loaded
    /\ loaded' = TRUE
    /\ WORKDIR' = cwd
    /\ UNCHANGED <<cwd, files, kcall>>

\* os.chdir(d) by the process, before or after the import
Chdir ==
    /\ \E d \in Dirs : cwd' = d
    /\ UNCHANGED <<loaded, WORKDIR, files, kcall>>

\* os.path.join(directory, name) of an absolute directory and a file name
PathJoin(directory, name) == <<directory, name>>

\* the directory a write of the kernel assembler goes to, mutated to the
\* working directory at the time of the call
OutputDirAtCall == cwd

\* os.path.join(WORKDIR, ...): the directory of every file written
OutputDir == WORKDIR

\* np.save(path, array) and utils.dump_obj(path, obj) on the file system fs
\* (np.save stores the array under the path it is given, extended by ".npy")
Save(fs, path, content) == (path :> content) @@ fs

-----------------------------------------------------------------------------
(* compute_kernels.  The representation, the SOAP vectors and the sparse   *)
(* points are opaque; the kernel evaluator (rascal.models.Kernel) is an    *)
(* external collaborator, and the array it returns is identified by the    *)
(* kernel's parameters and the arguments of the evaluation.                *)

Reps == {"SphericalInvariants"}
SoapSets == {"soaps_train", "soaps_test"}
SparseSets == {"sparse_points"}
SoapPowers == {1, 2}

\* models.Kernel(rep, name='GAP', zeta=soap_power, target_type='Structure',
\*               kernel_type='Sparse')
Kernel(rep, soap_power) ==
    [rep |-> rep, name |-> "GAP", zeta |-> soap_power,
     target_type |-> "Structure", kernel_type |-> "Sparse"]

\* kernel(X), kernel(X, Y) and kernel(X, Y, grad=(True, False))
KernelEval(kernel, X, Y, grad) ==
    [array |-> "kernel", kernel |-> kernel, X |-> X, Y |-> Y, grad |-> grad]

\* np.array([])
EmptyArray == [array |-> "empty"]

\* the effect of a compute_kernels run on the file system fs: the files after
\* it, the paths written and the tuple returned; mutated to compute and save
\* the sparse kernel whatever compute_sparse_kernel is
compute_kernels_always_sparse(fs, rep, soaps, sparse_points, soap_power, do_gradients, compute_sparse_kernel) ==
    LET kernel == Kernel(rep, soap_power)
        kernel_sparse == KernelEval(kernel, sparse_points, "", <<FALSE, FALSE>>)
        fs1 == Save(fs, PathJoin(OutputDir, "K_MM"), kernel_sparse)
        kernel_sparse_full ==
            KernelEval(kernel, soaps, sparse_points, <<FALSE, FALSE>>)
        fs2 == Save(fs1, PathJoin(OutputDir, "K_NM_E"), kernel_sparse_full)
        kernel_sparse_full_grads ==
            KernelEval(kernel, soaps, sparse_points, <<TRUE, FALSE>>)
    IN IF do_gradients
       THEN [files |-> Save(fs2, PathJoin(OutputDir, "K_NM_F"),
                            kernel_sparse_full_grads),
             wrote |-> {PathJoin(OutputDir, "K_MM"),
                        PathJoin(OutputDir, "K_NM_E"),
                        PathJoin(OutputDir, "K_NM_F")},
             ret |-> <<kernel, kernel_sparse, kernel_sparse_full,
                       kernel_sparse_full_grads>>]
       ELSE [files |-> fs2,
             wrote |-> {PathJoin(OutputDir, "K_MM"),
                        PathJoin(OutputDir, "K_NM_E")},
             ret |-> <<kernel, kernel_sparse, kernel_sparse_full>>]

compute_kernels(fs, rep, soaps, sparse_points, soap_power, do_gradients, compute_sparse_kernel) ==
    LET kernel == Kernel(rep, soap_power)
        kernel_sparse ==
            IF compute_sparse_kernel
            THEN KernelEval(kernel, sparse_points, "", <<FALSE, FALSE>>)
            ELSE EmptyArray
        fs1 == IF compute_sparse_kernel
               THEN Save(fs, PathJoin(OutputDir, "K_MM"), kernel_sparse)
               ELSE fs
        wrote1 == IF compute_sparse_kernel
                  THEN {PathJoin(OutputDir, "K_MM")}
                  ELSE {}
        kernel_sparse_full ==
            KernelEval(kernel, soaps, sparse_points, <<FALSE, FALSE>>)
        fs2 == Save(fs1, PathJoin(OutputDir, "K_NM_E"), kernel_sparse_full)
        wrote2 == wrote1 \cup {PathJoin(OutputDir, "K_NM_E")}
        kernel_sparse_full_grads ==
            KernelEval(kernel, soaps, sparse_points, <<TRUE, FALSE>>)
    IN IF do_gradients
       THEN [files |-> Save(fs2, PathJoin(OutputDir, "K_NM_F"),
                            kernel_sparse_full_grads),
             wrote |-> wrote2 \cup {PathJoin(OutputDir, "K_NM_F")},
             ret |-> <<kernel, kernel_sparse, kernel_sparse_full,
                       kernel_sparse_full_grads>>]
       ELSE [files |-> fs2,
             wrote |-> wrote2,
             ret |-> <<kernel, kernel_sparse, kernel_sparse_full>>]

NoCall == [fn |-> "none"]

\* a call of compute_kernels, run to its return
ComputeKernels ==
    /\ loaded
    /\ \E rep \in Reps, soaps \in SoapSets, sparse_points \in SparseSets,
          soap_power \in SoapPowers, do_gradients \in BOOLEAN,
          compute_sparse_kernel \in BOOLEAN :
        LET run == compute_kernels(files, rep, soaps, sparse_points,
                                   soap_power, do_gradients,
                                   compute_sparse_kernel)
        IN /\ files' = run.files
           /\ kcall' = [fn |-> "compute_kernels", cwd |-> cwd,
                        rep |-> rep, soaps |-> soaps,
                        sparse_points |-> sparse_points,
                        soap_power |-> soap_power,
                        do_gradients |-> do_gradients,
                        compute_sparse_kernel |-> compute_sparse_kernel,
                        wrote |-> run.wrote, ret |-> run.ret]
    /\ UNCHANGED <<loaded, WORKDIR, cwd>>

\* calculate_and_sparsify: the representation, its SOAP vectors and the CUR
\* selection are external; the sparse points are dumped under WORKDIR
calculate_and_sparsify(fs, geoms) ==
    LET soaps == [transform |-> geoms]
        sparse_points_cur == [fit_transform |-> soaps]
    IN [files |-> Save(fs, PathJoin(OutputDir, "sparsepoints.json"),
                       sparse_points_cur),
        wrote |-> {PathJoin(OutputDir, "sparsepoints.json")},
        ret |-> <<"rep", soaps, sparse_points_cur>>]

GeomSets == {"geoms_train", "geoms_test"}

CalculateAndSparsify ==
    /\ loaded
    /\ \E geoms \in GeomSets :
        LET run == calculate_and_sparsify(files, geoms)
        IN /\ files' = run.files
           /\ kcall' = [fn |-> "calculate_and_sparsify", cwd |-> cwd,
                        wrote |-> run.wrote, ret |-> run.ret]
    /\ UNCHANGED <<loaded, WORKDIR, cwd>>

\* the process starts in some directory, the module not yet imported
KernelsInit ==
    /\ loaded = FALSE
    /\ WORKDIR = ""
    /\ cwd \in Dirs
    /\ files = <<>>
    /\ kcall = NoCall

-----------------------------------------------------------------------------
(* NumPy arrays: a 1-D array is a sequence of numbers, a 2-D array a       *)
(* sequence of rows.  An operation that raises returns Raise(exception).   *)

Ok(v) == [err |-> "", val |-> v]
Raise(e) == [err |-> e, val |-> <<>>]

Rows(A) == Len(A)
Cols(A) == IF Len(A) = 0 THEN 0 ELSE Len(A[1])

\* broadcasting of two extents: they agree, or one of them is 1
Compatible(m, n) == m = n \/ m = 1 \/ n = 1
Extent(m, n) == IF m = 1 THEN n ELSE m
At(i, n) == IF n = 1 THEN 1 ELSE i

\* the arithmetic operator op on two array elements
Elementwise(op, a, b) ==
    CASE op = "-" -> Sub(a, b)
      [] op = "/" -> Div(a, b)
      [] op = "+" -> Add(a, b)

\* x op y elementwise for 1-D arrays, with NumPy's broadcasting
Broadcast1(op, x, y) ==
    IF ~Compatible(Len(x), Len(y)) THEN Raise("ValueError")
    ELSE Ok(Arr([i \in 1..Extent(Len(x), Len(y)) |->
                Elementwise(op, x[At(i, Len(x))], y[At(i, Len(y))])]))

\* A op B elementwise for 2-D arrays, with NumPy's broadcasting
Broadcast2(op, A, B) ==
    IF ~(Compatible(Rows(A), Rows(B)) /\ Compatible(Cols(A), Cols(B)))
    THEN Raise("ValueError")
    ELSE Ok(Arr([i \in 1..Extent(Rows(A), Rows(B)) |->
              Arr([j \in 1..Extent(Cols(A), Cols(B)) |->
                Elementwise(op, A[At(i, Rows(A))][At(j, Cols(A))],
                            B[At(i, Rows(B))][At(j, Cols(B))])])]))

\* v[:, np.newaxis]
NewAxis(v) == Arr([i \in 1..Len(v) |-> <<v[i]>>])

\* A.T of an array with at least one row
Transpose(A) == Arr([j \in 1..Cols(A) |-> Arr([i \in 1..Rows(A) |-> A[i][j]])])

\* A @ B for 2-D arrays
MatMul(A, B) ==
    IF Cols(A) # Rows(B) THEN Raise("ValueError")
    ELSE Ok(Arr([i \in 1..Rows(A) |->
              Arr([j \in 1..Cols(B) |->
                SumSeq(Arr([k \in 1..Cols(A) |-> Mul(A[i][k], B[k][j])]))])]))

\* A @ y for a 2-D array and a 1-D array
MatVec(A, y) ==
    IF Cols(A) # Len(y) THEN Raise("ValueError")
    ELSE Ok(Arr([i \in 1..Rows(A) |->
              SumSeq(Arr([k \in 1..Cols(A) |-> Mul(A[i][k], y[k])]))]))

\* array.flatten() of a 2-D array, row by row
RECURSIVE Flatten(_)
Flatten(A) == IF A = <<>> THEN <<>> ELSE A[1] \o Flatten(Tail(A))

\* np.vstack((A, B)) of two 2-D arrays
VStack(A, B) ==
    IF Cols(A) # Cols(B) THEN Raise("ValueError") ELSE Ok(A \o B)

\* scalar * array and array / scalar
Scale2(c, A) == Arr([i \in 1..Rows(A) |-> Arr([j \in 1..Cols(A) |-> Mul(c, A[i][j])])])
DivScalar1(v, c) == Arr([i \in 1..Len(v) |-> Div(v[i], c)])
DivScalar2(A, c) == Arr([i \in 1..Rows(A) |-> Arr([j \in 1..Cols(A) |-> Div(A[i][j], c)])])

-----------------------------------------------------------------------------
(* np.linalg.lstsq(K, b, rcond=None): the least-squares solution of        *)
(* minimum norm, pinv(K) b.  With K = C F a full-rank factorization (C the *)
(* pivot columns of K, F the non-zero rows of its reduced row echelon      *)
(* form), pinv(K) = F^T (F F^T)^-1 (C^T C)^-1 C^T, which is K^-1 for a     *)
(* non-singular square K.                                                  *)

SwapRows(A, i, j) ==
    Arr([k \in 1..Rows(A) |-> IF k = i THEN A[j] ELSE IF k = j THEN A[i] ELSE A[k]])

\* row "row" scaled to a pivot of 1 in column col, the column cleared elsewhere
Eliminate(A, row, col) ==
    LET p == Arr([j \in 1..Cols(A) |-> Div(A[row][j], A[row][col])])
    IN Arr([i \in 1..Rows(A) |->
          IF i = row THEN p
          ELSE Arr([j \in 1..Cols(A) |-> Sub(A[i][j], Mul(A[i][col], p[j]))])])

\* Gauss-Jordan elimination on the first "upto" columns, from (row, col)
RECURSIVE Rref(_, _, _, _, _)
Rref(A, row, col, upto, pivots) ==
    IF row > Rows(A) \/ col > upto THEN [mat |-> A, pivots |-> pivots]
    ELSE LET cand == {i \in row..Rows(A) : A[i][col] # Zero}
         IN IF cand = {} THEN Rref(A, row, col + 1, upto, pivots)
            ELSE LET p == CHOOSE i \in cand : \A i2 \in cand : i <= i2
                 IN Rref(Eliminate(SwapRows(A, row, p), row, col),
                         row + 1, col + 1, upto, Append(pivots, col))

\* A without row i and column j
Minor(A, i, j) ==
    Arr([k \in 1..(Rows(A) - 1) |->
        Arr([l \in 1..(Cols(A) - 1) |->
            A[IF k < i THEN k ELSE k + 1][IF l < j THEN l ELSE l + 1]])])

\* the determinant of a square array, expanded along its first row
RECURSIVE Det(_)
Det(A) ==
    IF Rows(A) = 1 THEN A[1][1]
    ELSE SumSeq(Arr([j \in 1..Cols(A) |->
            IF A[1][j] = Zero THEN Zero
            ELSE Mul(IF j % 2 = 1 THEN A[1][j] ELSE Neg(A[1][j]),
                     Det(Minor(A, 1, j)))]))

\* the solution of S x = v for a non-singular square S, by Cramer's rule
SolveSquare(S, v) ==
    LET d == Det(S)
    IN Arr([j \in 1..Cols(S) |->
          Div(Det(Arr([i \in 1..Rows(S) |->
                      Arr([l \in 1..Cols(S) |->
                          IF l = j THEN v[i] ELSE S[i][l]])])), d)])

PinvApply(K, b) ==
    LET red == Rref(K, 1, 1, Cols(K), <<>>)
        r == Len(red.pivots)
        C == Arr([i \in 1..Rows(K) |-> Arr([k \in 1..r |-> K[i][red.pivots[k]]])])
        F == Arr([k \in 1..r |-> red.mat[k]])
        Ct == Transpose(C)
        y == SolveSquare(MatMul(Ct, C).val, MatVec(Ct, b).val)
        z == SolveSquare(MatMul(F, Transpose(F)).val, y)
    IN IF Rows(K) = Cols(K) /\ Det(K) # Zero THEN SolveSquare(K, b)
       ELSE IF r = 0 THEN Arr([j \in 1..Cols(K) |-> Zero])
       ELSE MatVec(Transpose(F), z).val

\* the first element of the tuple np.linalg.lstsq(K, b) returns
Lstsq(K, b) ==
    IF Rows(K) # Len(b) THEN Raise("LinAlgError") ELSE Ok(PinvApply(K, b))

-----------------------------------------------------------------------------
(* fit_gap_simple(geoms, kernel_sparse, energies, kernel_energies_sparse,  *)
(*                energy_regularizer_peratom, energy_atom_contributions,   *)
(*                forces=None, kernel_gradients_sparse=None,               *)
(*                force_regularizer=None, rcond=None)                      *)
(* The arguments are the record a; geoms is a sequence of structures, each *)
(* the sequence of its atomic numbers; forces is a P x 3 array; the three  *)
(* optional arguments are None or Some(value); rcond is left at None.      *)

\* the locals of a run: err is the exception raised ("" for none), a local
\* that was never bound is <<>>
EmptyFrame ==
    [err |-> "", e0_all |-> <<>>, energies_shifted |-> <<>>,
     natoms_list |-> <<>>, energy_regularizer |-> <<>>,
     kernel_energies_norm |-> <<>>, gradients |-> <<>>,
     kernel_gradients_norm |-> <<>>, K_NM |-> <<>>, Y |-> <<>>,
     K |-> <<>>, weights |-> <<>>]

\* line 217 without the square root
EnergyRegularizerLinear(energy_regularizer_peratom, natoms_list) ==
    Arr([i \in 1..Len(natoms_list) |->
        Mul(energy_regularizer_peratom, IntNum(natoms_list[i]))])

\* energy_regularizer = energy_regularizer_peratom * np.sqrt(natoms_list)
EnergyRegularizer(energy_regularizer_peratom, natoms_list) ==
    Arr([i \in 1..Len(natoms_list) |->
        Mul(energy_regularizer_peratom, NpSqrt(natoms_list[i]))])

\* line 220 testing the gradient kernel instead of the forces
UseForcesByKernel(a) == ~a.kernel_gradients_sparse.isNone

\* if forces is not None
UseForces(a) == ~a.forces.isNone

\* gradients = -1 * forces
Gradients(forces) ==
    IF forces.isNone THEN Raise("TypeError")
    ELSE Ok(Scale2(IntNum(-1), forces.val))

\* kernel_gradients_norm = kernel_gradients_sparse / force_regularizer
KernelGradientsNorm(kernel_gradients_sparse, force_regularizer) ==
    IF kernel_gradients_sparse.isNone \/ force_regularizer.isNone
    THEN Raise("TypeError")
    ELSE Ok(DivScalar2(kernel_gradients_sparse.val, force_regularizer.val))

\* line 223 with the gradient block stacked first
StackDesignGradFirst(kernel_energies_norm, kernel_gradients_norm) ==
    VStack(kernel_gradients_norm, kernel_energies_norm)

\* K_NM = np.vstack((kernel_energies_norm, kernel_gradients_norm))
StackDesign(kernel_energies_norm, kernel_gradients_norm) ==
    VStack(kernel_energies_norm, kernel_gradients_norm)

\* Y = np.concatenate((energies_shifted / energy_regularizer,
\*                     gradients.flatten() / force_regularizer))
StackTargets(energies_shifted, energy_regularizer, gradients, force_regularizer) ==
    LET e == Broadcast1("/", energies_shifted, energy_regularizer)
    IN IF e.err # "" THEN e
       ELSE IF force_regularizer.isNone THEN Raise("TypeError")
       ELSE Ok(e.val \o DivScalar1(Flatten(gradients), force_regularizer.val))

\* line 229 without the sparse kernel
NormalMatrixNoSparse(kernel_sparse, K_NM) ==
    MatMul(Transpose(K_NM), K_NM)

\* K = kernel_sparse + K_NM.T @ K_NM
NormalMatrix(kernel_sparse, K_NM) ==
    Broadcast2("+", kernel_sparse, MatMul(Transpose(K_NM), K_NM).val)

\* lines 229-231, from the frame f with K_NM and Y bound
FitSolve(a, f) ==
    LET K == NormalMatrix(a.kernel_sparse, f.K_NM)
        rhs == MatVec(Transpose(f.K_NM), f.Y)
        weights == Lstsq(K.val, rhs.val)
    IN IF K.err # "" THEN [f EXCEPT !.err = K.err]
       ELSE IF rhs.err # "" THEN [f EXCEPT !.err = rhs.err, !.K = K.val]
       ELSE IF weights.err # ""
       THEN [f EXCEPT !.err = weights.err, !.K = K.val]
       ELSE [f EXCEPT !.K = K.val, !.weights = weights.val]

\* lines 221-225, the branch taken with forces
FitWithForces(a, f) ==
    LET gradients == Gradients(a.forces)
        kernel_gradients_norm ==
            KernelGradientsNorm(a.kernel_gradients_sparse, a.force_regularizer)
        K_NM == StackDesign(f.kernel_energies_norm, kernel_gradients_norm.val)
        Y == StackTargets(f.energies_shifted, f.energy_regularizer,
                          gradients.val, a.force_regularizer)
        f1 == [f EXCEPT !.gradients = gradients.val]
        f2 == [f1 EXCEPT !.kernel_gradients_norm = kernel_gradients_norm.val]
        f3 == [f2 EXCEPT !.K_NM = K_NM.val]
    IN IF gradients.err # "" THEN [f EXCEPT !.err = gradients.err]
       ELSE IF kernel_gradients_norm.err # ""
       THEN [f1 EXCEPT !.err = kernel_gradients_norm.err]
       ELSE IF K_NM.err # "" THEN [f2 EXCEPT !.err = K_NM.err]
       ELSE IF Y.err # "" THEN [f3 EXCEPT !.err = Y.err]
       ELSE FitSolve(a, [f3 EXCEPT !.Y = Y.val])

\* lines 227-228 with the targets also divided by force_regularizer when
\* one is supplied
FitEnergiesOnlyForceScaled(a, f) ==
    LET Y0 == Broadcast1("/", f.energies_shifted, f.energy_regularizer)
        Y == IF a.force_regularizer.isNone \/ Y0.err # "" THEN Y0
             ELSE Ok(DivScalar1(Y0.val, a.force_regularizer.val))
        f1 == [f EXCEPT !.K_NM = f.kernel_energies_norm]
    IN IF Y.err # "" THEN [f1 EXCEPT !.err = Y.err]
       ELSE FitSolve(a, [f1 EXCEPT !.Y = Y.val])

\* lines 227-228, the branch taken without forces
FitEnergiesOnly(a, f) ==
    LET Y == Broadcast1("/", f.energies_shifted, f.energy_regularizer)
        f1 == [f EXCEPT !.K_NM = f.kernel_energies_norm]
    IN IF Y.err # "" THEN [f1 EXCEPT !.err = Y.err]
       ELSE FitSolve(a, [f1 EXCEPT !.Y = Y.val])

\* the run of fit_gap_simple on the arguments a: its locals at the return or
\* at the exception
fit_gap_simple(a) ==
    LET N == Len(a.geoms)
        e0_all ==
            Arr([i \in 1..N |->
                _get_energy_baseline(a.geoms[i], a.energy_atom_contributions)])
        energies_shifted == Broadcast1("-", a.energies, e0_all)
        natoms_list == Arr([i \in 1..N |-> Len(a.geoms[i])])
        energy_regularizer ==
            EnergyRegularizer(a.energy_regularizer_peratom, natoms_list)
        kernel_energies_norm ==
            Broadcast2("/", a.kernel_energies_sparse,
                       NewAxis(energy_regularizer))
        f0 == [EmptyFrame EXCEPT !.e0_all = e0_all]
        f1 == [f0 EXCEPT !.energies_shifted = energies_shifted.val,
                         !.natoms_list = natoms_list,
                         !.energy_regularizer = energy_regularizer]
        f2 == [f1 EXCEPT !.kernel_energies_norm = kernel_energies_norm.val]
    IN IF energies_shifted.err # "" THEN [f0 EXCEPT !.err = energies_shifted.err]
       ELSE IF kernel_energies_norm.err # ""
       THEN [f1 EXCEPT !.err = kernel_energies_norm.err]
       ELSE IF UseForces(a) THEN FitWithForces(a, f2)
       ELSE FitEnergiesOnly(a, f2)

\* the argument objects after a run in which "energies - e0_all" is done in
\* place ("energies -= e0_all")
ArgsAfterFitInPlace(a) ==
    LET f == fit_gap_simple(a)
    IN IF f.energies_shifted = <<>> THEN a
       ELSE [a EXCEPT !.energies = f.energies_shifted]

\* the argument objects after a run: every statement of lines 213-231 binds
\* a new array, none writes into an argument
ArgsAfterFit(a) == a

-----------------------------------------------------------------------------
(* The callers of fit_gap_simple.  Structures alternate hydrogen and       *)
(* oxygen (H, HO, HOH, ...); a list of structures is given by its atom     *)
(* counts.  The arrays are filled by position, so that an array is         *)
(* determined by its shape; the lengths of energies and the row count of   *)
(* kernel_energies_sparse are chosen independently of the number of        *)
(* structures.  Regularizers are positive and every structure has at       *)
(* least one atom (a zero divisor gives inf or nan, not modelled).         *)

Structure(k) == Arr([j \in 1..k |-> IF j % 2 = 1 THEN 1 ELSE 8])

AtomCounts ==
    UNION {{c \in [1..n -> 1..MaxAtoms] : \A i \in 1..(n - 1) : c[i] <= c[i + 1]}
           : n \in 1..MaxN}

GeomsOf(c) == Arr([i \in 1..Len(c) |-> Structure(c[i])])

RECURSIVE TotalAtoms(_)
TotalAtoms(geoms) ==
    IF geoms = <<>> THEN 0 ELSE Len(geoms[1]) + TotalAtoms(Tail(geoms))

EnergiesOf(L) == Arr([i \in 1..L |-> IntNum(2 * i + 1)])
KernelEnergiesOf(R, M) ==
    Arr([i \in 1..R |->
        Arr([j \in 1..M |-> IntNum(IF j = 1 THEN i ELSE (i + j) % 2)])])
KernelSparseOf(M, s) ==
    Arr([i \in 1..M |-> Arr([j \in 1..M |-> IF i = j THEN IntNum(s) ELSE Zero])])
ForcesOf(P) == Arr([p \in 1..P |-> Arr([c \in 1..3 |-> IntNum(p - c)])])
KernelGradientsOf(P, M) ==
    Arr([i \in 1..(3 * P) |-> Arr([j \in 1..M |-> IntNum(((i + j) % 3) - 1)])])

ZeroTable == (1 :> Zero) @@ (8 :> Zero)
HydrogenTable == (1 :> IntNum(1))
FitTables == {ZeroTable, HydrogenTable}
EnergyRegularizers == {IntNum(1), IntNum(2)}
ForceRegularizers == {None, Some(IntNum(2))}

FitArgs(c, L, R, M, s, reg, t, withForces, withGrad, freg) ==
    [geoms |-> GeomsOf(c),
     kernel_sparse |-> KernelSparseOf(M, s),
     energies |-> EnergiesOf(L),
     kernel_energies_sparse |-> KernelEnergiesOf(R, M),
     energy_regularizer_peratom |-> reg,
     energy_atom_contributions |-> t,
     forces |-> IF withForces THEN Some(ForcesOf(TotalAtoms(GeomsOf(c))))
                ELSE None,
     kernel_gradients_sparse |->
         IF withGrad THEN Some(KernelGradientsOf(TotalAtoms(GeomsOf(c)), M))
         ELSE None,
     force_regularizer |-> freg]

\* the inputs that vary the shapes, every length chosen independently
ShapeInputs ==
    {FitArgs(c, L, R, M, 1, IntNum(1), ZeroTable, wf, wg, freg) :
        c \in AtomCounts, L \in 1..MaxN, R \in 1..MaxN, M \in 1..MaxM,
        wf \in BOOLEAN, wg \in BOOLEAN, freg \in ForceRegularizers}

\* the inputs that vary the values, the shapes being as documented
ValueInputs ==
    {FitArgs(c, Len(c), Len(c), M, 1, reg, t, wf, wg, freg) :
        c \in AtomCounts, M \in 1..MaxM,
        reg \in EnergyRegularizers, t \in FitTables,
        wf \in BOOLEAN, wg \in BOOLEAN, freg \in ForceRegularizers}

\* the inputs with a zero sparse kernel and a single structure, for which
\* the normal-equations matrix is singular as soon as M > 1
DegenerateInputs ==
    {FitArgs(<<k>>, 1, 1, M, 0, reg, t, FALSE, FALSE, None) :
        k \in 1..MaxAtoms, M \in 1..MaxM,
        reg \in EnergyRegularizers, t \in FitTables}

FitInputs == ShapeInputs \cup ValueInputs \cup DegenerateInputs

\* the inputs of the callers that call more than once
RepeatInputs ==
    {FitArgs(c, Len(c), Len(c), 1, 1, reg, HydrogenTable, wf, wf,
             IF wf THEN Some(IntNum(2)) ELSE None) :
        c \in AtomCounts, reg \in EnergyRegularizers, wf \in BOOLEAN}

FitInit ==
    /\ args \in FitInputs
    /\ frame = EmptyFrame
    /\ pc = "called"
    /\ first = None

\* the run of fit_gap_simple, to its return or its exception
Fit ==
    /\ pc = "called"
    /\ frame' = fit_gap_simple(args)
    /\ args' = ArgsAfterFit(args)
    /\ pc' = "done"
    /\ UNCHANGED first

RepeatInit ==
    /\ args \in RepeatInputs
    /\ frame = EmptyFrame
    /\ pc = "called"
    /\ first = None

\* the run of fit_gap_simple, the first completed call being remembered
FitRecorded ==
    /\ pc = "called"
    /\ frame' = fit_gap_simple(args)
    /\ args' = ArgsAfterFit(args)
    /\ pc' = "done"
    /\ first' = IF first.isNone
                THEN Some([args |-> args, frame |-> frame', repeated |-> FALSE])
                ELSE IF first.val.args = args
                THEN Some([first.val EXCEPT !.repeated = TRUE])
                ELSE first

\* the caller builds the arguments of its next call
Prepare ==
    /\ pc = "done"
    /\ args' \in RepeatInputs
    /\ frame' = EmptyFrame
    /\ pc' = "called"
    /\ UNCHANGED first

\* the caller calls again with the objects it passed to the last call
CallAgain ==
    /\ pc = "done"
    /\ pc' = "called"
    /\ frame' = EmptyFrame
    /\ UNCHANGED <<args, first>>

-----------------------------------------------------------------------------
(* The specifications. *)

BaselineIdle == bl_geom = <<>> /\ bl_table = <<>> /\ bl_ret = None
KernelsIdle ==
    loaded = FALSE /\ WORKDIR = "" /\ cwd = "/home/a" /\ files = <<>>
    /\ kcall = NoCall
FitIdle == args = <<>> /\ frame = EmptyFrame /\ pc = "idle" /\ first = None

\* fit_gap_simple and its callers
Init == FitInit /\ BaselineIdle /\ KernelsIdle
Next == Fit /\ UNCHANGED <<blVars, kVars>>
Spec == Init /\ [][Next]_vars

\* callers that call fit_gap_simple more than once
InitRepeat == RepeatInit /\ BaselineIdle /\ KernelsIdle
NextRepeat ==
    \/ FitRecorded /\ UNCHANGED <<blVars, kVars>>
    \/ Prepare /\ UNCHANGED <<blVars, kVars>>
    \/ CallAgain /\ UNCHANGED <<blVars, kVars>>
SpecRepeat == InitRepeat /\ [][NextRepeat]_vars

\* _get_energy_baseline and its callers
InitBaseline == BaselineInit /\ KernelsIdle /\ FitIdle
NextBaseline ==
    \/ BaselineCall /\ UNCHANGED <<kVars, fitVars>>
    \/ GetEnergyBaseline /\ UNCHANGED <<kVars, fitVars>>
SpecBaseline == InitBaseline /\ [][NextBaseline]_vars

\* the module's import, the working directory and the kernel assembler
InitKernels == KernelsInit /\ BaselineIdle /\ FitIdle
NextKernels ==
    \/ Import /\ UNCHANGED <<blVars, fitVars>>
    \/ Chdir /\ UNCHANGED <<blVars, fitVars>>
    \/ ComputeKernels /\ UNCHANGED <<blVars, fitVars>>
    \/ CalculateAndSparsify /\ UNCHANGED <<blVars, fitVars>>
SpecKernels == InitKernels /\ [][NextKernels]_vars

-----------------------------------------------------------------------------
(* The claims about _get_energy_baseline, under SpecBaseline. *)

\* the baseline as the sum over the atoms of the table's value for the
\* atom's species, an absent species counting zero
SumOverAtoms(geom, atom_contributions) ==
    SumSeq(Arr([j \in 1..Len(geom) |->
        IF geom[j] \in DOMAIN atom_contributions
        THEN atom_contributions[geom[j]] ELSE Zero]))

\* C3: the baseline returned is the sum over all atoms of the table's value
\* for the atom's species, an atom of a species absent from the table
\* contributing zero; an all-zero table gives 0, and the structure with every
\* atom doubled, of a single-species structure, has twice the baseline.
C3_BaselineIsSumOverAtoms ==
    ~bl_ret.isNone =>
        /\ bl_ret.val = SumOverAtoms(bl_geom, bl_table)
        /\ (\A sp \in DOMAIN bl_table : bl_table[sp] = Zero) => bl_ret.val = Zero
        /\ (\A j \in 1..Len(bl_geom) : bl_geom[j] = bl_geom[1]) =>
              _get_energy_baseline(bl_geom \o bl_geom, bl_table)
                  = Mul(IntNum(2), bl_ret.val)

\* a returned baseline of a structure with an atom of a species absent from
\* the table and an atom of each of two species with non-zero values
C3_Witness ==
    /\ ~bl_ret.isNone
    /\ \E j \in 1..Len(bl_geom) : bl_geom[j] \notin DOMAIN bl_table
    /\ \E j \in 1..Len(bl_geom) :
          bl_geom[j] \in DOMAIN bl_table /\ bl_table[bl_geom[j]] # Zero
    /\ Cardinality({sp \in DOMAIN bl_table : bl_table[sp] # Zero}) = 2
    /\ bl_ret.val # Zero

-----------------------------------------------------------------------------
(* The claims about the kernel assembler, under SpecKernels. *)

KernelFileNames == {"K_MM", "K_NM_E", "K_NM_F"}

\* C5 as stated: after a compute_kernels call, every file the call wrote is
\* under the working directory the process had at the time of the call,
\* under one of the names K_MM, K_NM_E, K_NM_F.
C5_WrittenUnderCwdAtCall ==
    kcall.fn = "compute_kernels" =>
        \A path \in kcall.wrote :
            path[1] = kcall.cwd /\ path[2] \in KernelFileNames

\* C5 as amended: after a compute_kernels call, every matrix the call
\* computed is in a file under the directory that was the working directory
\* when the module was imported (WORKDIR), under one of the names K_MM,
\* K_NM_E, K_NM_F, whatever the working directory was at the call.
C5_WrittenUnderImportDir ==
    kcall.fn = "compute_kernels" =>
        /\ \A path \in kcall.wrote :
              /\ path[1] = WORKDIR
              /\ path[2] \in KernelFileNames
              /\ path \in DOMAIN files
        /\ \A k \in 2..Len(kcall.ret) :
              kcall.ret[k] # EmptyArray =>
                  \E path \in kcall.wrote : files[path] = kcall.ret[k]

\* a compute_kernels call made after the working directory was changed
\* since the import, which wrote all three matrices
C5_Witness ==
    /\ kcall.fn = "compute_kernels"
    /\ kcall.cwd # WORKDIR
    /\ Cardinality(kcall.wrote) = 3

\* whether the file of that name under WORKDIR is the same in fs1 and fs2
SameFile(fs1, fs2, name) ==
    LET path == PathJoin(WORKDIR, name)
    IN /\ (path \in DOMAIN fs1) = (path \in DOMAIN fs2)
       /\ path \in DOMAIN fs1 => fs1[path] = fs2[path]

\* C6: a compute_kernels call always computes, saves and returns the
\* train-sparse energy kernel; it computes and saves the sparse-sparse kernel
\* only when compute_sparse_kernel is true, and otherwise returns an empty
\* array in its place and leaves the K_MM file as it was; it computes, saves
\* and returns the gradient kernel only when do_gradients is true, so it
\* returns 4 elements with gradients and 3 without, and leaves the K_NM_F
\* file as it was without.
C6_KernelsComputedByFlags ==
    [][(kcall' # kcall /\ kcall'.fn = "compute_kernels") =>
        LET k == kcall'
            kernel == Kernel(k.rep, k.soap_power)
            energy == KernelEval(kernel, k.soaps, k.sparse_points,
                                 <<FALSE, FALSE>>)
            sparse == KernelEval(kernel, k.sparse_points, "", <<FALSE, FALSE>>)
            grads == KernelEval(kernel, k.soaps, k.sparse_points,
                                <<TRUE, FALSE>>)
        IN /\ k.ret[1] = kernel
           /\ k.ret[3] = energy
           /\ PathJoin(WORKDIR, "K_NM_E") \in DOMAIN files'
           /\ files'[PathJoin(WORKDIR, "K_NM_E")] = energy
           /\ IF k.compute_sparse_kernel
              THEN /\ k.ret[2] = sparse
                   /\ PathJoin(WORKDIR, "K_MM") \in DOMAIN files'
                   /\ files'[PathJoin(WORKDIR, "K_MM")] = sparse
              ELSE /\ k.ret[2] = EmptyArray
                   /\ SameFile(files, files', "K_MM")
           /\ IF k.do_gradients
              THEN /\ Len(k.ret) = 4
                   /\ k.ret[4] = grads
                   /\ PathJoin(WORKDIR, "K_NM_F") \in DOMAIN files'
                   /\ files'[PathJoin(WORKDIR, "K_NM_F")] = grads
              ELSE /\ Len(k.ret) = 3
                   /\ SameFile(files, files', "K_NM_F")]_vars

\* a compute_kernels call with both flags false, made when K_MM and K_NM_F
\* files of another soap_power were there, which are still there
C6_Witness ==
    /\ kcall.fn = "compute_kernels"
    /\ ~kcall.compute_sparse_kernel
    /\ ~kcall.do_gradients
    /\ PathJoin(WORKDIR, "K_MM") \in DOMAIN files
    /\ files[PathJoin(WORKDIR, "K_MM")].kernel.zeta # kcall.soap_power
    /\ PathJoin(WORKDIR, "K_NM_F") \in DOMAIN files
    /\ files[PathJoin(WORKDIR, "K_NM_F")].kernel.zeta # kcall.soap_power
    /\ files[PathJoin(WORKDIR, "K_NM_E")].kernel.zeta = kcall.soap_power
    /\ Len(kcall.ret) = 3

-----------------------------------------------------------------------------
(* The claims about fit_gap_simple, under Spec. *)

NumStructures == Len(args.geoms)

\* energies and kernel_energies_sparse have one entry, one row, a structure
ShapesAsDocumented ==
    /\ Len(args.energies) = NumStructures
    /\ Rows(args.kernel_energies_sparse) = NumStructures

\* C1: a call with forces supplied and kernel_gradients_sparse left at None
\* ends in an exception, whether or not force_regularizer is supplied, and
\* returns no weights.
C1_ForcesWithoutGradKernelRaise ==
    (pc = "done" /\ ~args.forces.isNone /\ args.kernel_gradients_sparse.isNone)
        => frame.err # "" /\ frame.weights = <<>>

\* a call with forces and force_regularizer supplied, the gradient kernel
\* omitted and every shape as documented, which raised at line 222
C1_Witness ==
    /\ pc = "done"
    /\ ~args.forces.isNone
    /\ args.kernel_gradients_sparse.isNone
    /\ ~args.force_regularizer.isNone
    /\ ShapesAsDocumented
    /\ frame.err = "TypeError"
    /\ frame.gradients # <<>>

\* C2 as stated: a call whose energies have a length other than the number
\* of structures, or whose kernel_energies_sparse has a row count other than
\* the number of structures, ends in an exception.
C2_ShapeMismatchRaises ==
    (pc = "done" /\ ~ShapesAsDocumented) => frame.err # ""

\* C4: a call with forces=None returns the weights (or raises the exception) of
\* the call with the same arguments and kernel_gradients_sparse and
\* force_regularizer both left at None.
C4_NoForcesIgnoresForceArguments ==
    (pc = "done" /\ args.forces.isNone) =>
        LET unset == fit_gap_simple(
                [args EXCEPT !.kernel_gradients_sparse = None,
                             !.force_regularizer = None])
        IN frame.weights = unset.weights /\ frame.err = unset.err

\* a call with forces=None and both force arguments supplied, which returned
\* weights
C4_Witness ==
    /\ pc = "done"
    /\ args.forces.isNone
    /\ ~args.kernel_gradients_sparse.isNone
    /\ ~args.force_regularizer.isNone
    /\ frame.err = ""
    /\ Len(frame.weights) = Cols(args.kernel_energies_sparse)

\* the end-to-end scenario: K_MM = [[1]], K_NM_energy = [[1], [2]],
\* energies = [3, 5], an all-zero baseline table, two structures of one atom,
\* energy_regularizer_peratom = 1, no forces
Scenario ==
    [geoms |-> <<<<1>>, <<1>>>>,
     kernel_sparse |-> <<<<IntNum(1)>>>>,
     energies |-> <<IntNum(3), IntNum(5)>>,
     kernel_energies_sparse |-> <<<<IntNum(1)>>, <<IntNum(2)>>>>,
     energy_regularizer_peratom |-> IntNum(1),
     energy_atom_contributions |-> ZeroTable,
     forces |-> None,
     kernel_gradients_sparse |-> None,
     force_regularizer |-> None]

C9_EnergyRowsScaledPerStructure ==
    (pc = "done" /\ ShapesAsDocumented /\ frame.Y # <<>>) =>
        LET reg == args.energy_regularizer_peratom
            factor(i) == Mul(reg, NpSqrt(Len(args.geoms[i])))
            shifted(i) ==
                Sub(args.energies[i],
                    _get_energy_baseline(args.geoms[i],
                                         args.energy_atom_contributions))
            half == fit_gap_simple(
                [args EXCEPT !.energy_regularizer_peratom =
                                 Div(reg, IntNum(2))])
            two == IntNum(2)
        IN \A i \in 1..NumStructures :
            /\ frame.Y[i] = Div(shifted(i), factor(i))
            /\ half.Y[i] = Mul(two, frame.Y[i])
            /\ \A j \in 1..Cols(args.kernel_energies_sparse) :
                /\ frame.K_NM[i][j] =
                       Div(args.kernel_energies_sparse[i][j], factor(i))
                /\ frame.kernel_energies_norm[i][j] = frame.K_NM[i][j]
                /\ half.kernel_energies_norm[i][j] =
                       Mul(two, frame.kernel_energies_norm[i][j])
                /\ half.K_NM[i][j] = Mul(two, frame.K_NM[i][j])

\* a fit of two structures of one and two atoms with a non-zero baseline and
\* energy_regularizer_peratom = 2, so that the two factors are 2 and 2 sqrt 2
C9_Witness ==
    /\ pc = "done"
    /\ ShapesAsDocumented
    /\ frame.err = ""
    /\ NumStructures = 2
    /\ Len(args.geoms[1]) = 1
    /\ Len(args.geoms[2]) = 2
    /\ args.energy_regularizer_peratom = IntNum(2)
    /\ args.energy_atom_contributions = HydrogenTable
    /\ frame.energy_regularizer = <<IntNum(2), MkNum(2, 1, 2)>>
    /\ frame.Y[2] = Div(IntNum(4), MkNum(2, 1, 2))

\* C10: with forces, the design matrix K_NM has N + 3P rows, the N normalized
\* energy rows first and then the 3P rows of kernel_gradients_sparse, each
\* divided by force_regularizer alone; Y has the same length and order, its
\* entry N + k being minus the k-th flattened force component divided by
\* force_regularizer.  Without forces K_NM and Y have exactly N rows.
C10_StackedEnergyThenGradient ==
    (pc = "done" /\ ShapesAsDocumented /\ frame.err = "") =>
        LET N == NumStructures
            P == TotalAtoms(args.geoms)
        IN IF args.forces.isNone
           THEN Rows(frame.K_NM) = N /\ Len(frame.Y) = N
           ELSE LET f == Flatten(args.forces.val)
                    freg == args.force_regularizer.val
                    grad == args.kernel_gradients_sparse.val
                IN /\ Rows(frame.K_NM) = N + 3 * P
                   /\ Len(frame.Y) = N + 3 * P
                   /\ Len(f) = 3 * P
                   /\ \A i \in 1..N :
                        /\ frame.K_NM[i] = frame.kernel_energies_norm[i]
                        /\ frame.Y[i] = Div(frame.energies_shifted[i],
                                            frame.energy_regularizer[i])
                   /\ \A k \in 1..(3 * P) :
                        /\ frame.Y[N + k] = Div(Neg(f[k]), freg)
                        /\ frame.K_NM[N + k] =
                             Arr([j \in 1..Cols(grad) |-> Div(grad[k][j], freg)])

\* a fit with forces of two structures with three atoms in all and two sparse
\* points, whose design matrix has 2 + 9 rows
C10_Witness ==
    /\ pc = "done"
    /\ ShapesAsDocumented
    /\ frame.err = ""
    /\ ~args.forces.isNone
    /\ NumStructures = 2
    /\ TotalAtoms(args.geoms) = 3
    /\ Cols(args.kernel_energies_sparse) = 2
    /\ Rows(frame.K_NM) = 11
    /\ Len(frame.Y) = 11
    /\ Len(frame.weights) = 2

-----------------------------------------------------------------------------
(* The claim about repeated calls of fit_gap_simple, under SpecRepeat. *)

=============================================================================
